---- MODULE Spec2Model ----
(***************************************************************************)
(* Batch docking orchestration and result extraction of                    *)
(* bsungwoo/protein_docking: run_docking, process_docking and              *)
(* process_vina_results of docking_system.py, and the call that            *)
(* interactive_docking.py makes into run_docking.                          *)
(*                                                                         *)
(* Texts (tool output, standard error) are sequences of one-character      *)
(* strings so that the regular expressions of process_vina_results are     *)
(* computed character by character.  File names are TLA+ strings built by  *)
(* concatenation, as the f-strings of process_docking build them.          *)
(* An optional value (Python None or a value) is <<>> or <<v>>.            *)
(***************************************************************************)
EXTENDS Integers, Sequences, FiniteSets, TLC

\* ------------------------------------------------------------------ bounds
\* Rows of the input table (receptor/ligand pairs of one batch).
MaxPairs == 2
\* Lines of a tool output / standard error text given to the extractor.
MaxLines == 2
\* Rows of a raw dataset given directly to process_vina_results.
MaxRows == 2

\* ------------------------------------------------------------- characters
None == <<>>
Some(v) == <<v>>

Digits == {"0", "1", "2", "3", "4", "5", "6", "7", "8", "9"}
\* \s of Python's re, restricted to the whitespace the texts contain.
Spaces == {" ", "\n", "\t"}

DigitVal(c) ==
    CASE c = "0" -> 0 [] c = "1" -> 1 [] c = "2" -> 2 [] c = "3" -> 3
      [] c = "4" -> 4 [] c = "5" -> 5 [] c = "6" -> 6 [] c = "7" -> 7
      [] c = "8" -> 8 [] c = "9" -> 9

\* First position >= i of t whose character is not in class (Len(t)+1 if none):
\* the end of a greedy \d* or \s* starting at i.
RECURSIVE ClassEnd(_, _, _)
ClassEnd(t, i, class) ==
    IF i <= Len(t) /\ t[i] \in class THEN ClassEnd(t, i + 1, class) ELSE i

\* t has the literal lit at position i.
HasLit(t, i, lit) ==
    /\ i + Len(lit) - 1 <= Len(t)
    /\ \A k \in 1..Len(lit) : t[i + k - 1] = lit[k]

\* ---------------------------------------------------- pattern elements
\* One element of a pattern matched greedily at position i of t: the position
\* after the match, or 0 when the element does not match there.  In the
\* patterns of process_vina_results the character classes of adjacent elements
\* are disjoint, so backtracking never finds a match the greedy pass misses.
\*   ws0  \s*      ws1  \s+      int  \d+      sint -?\d+
\*   dec  \d+\.\d+ sdec -?\d+\.\d+             num  -?\d+(?:\.\d+)?
IntEnd(t, i) ==
    LET j == ClassEnd(t, i, Digits) IN IF j > i THEN j ELSE 0

SignSkip(t, i) == IF i <= Len(t) /\ t[i] = "-" THEN i + 1 ELSE i

DecEnd(t, i) ==
    LET j == IntEnd(t, i) IN
    IF j # 0 /\ j <= Len(t) /\ t[j] = "." THEN IntEnd(t, j + 1) ELSE 0

NumEnd(t, i) ==
    LET j == IntEnd(t, i) IN
    IF j = 0 THEN 0
    ELSE IF j <= Len(t) /\ t[j] = "." /\ IntEnd(t, j + 1) # 0
         THEN IntEnd(t, j + 1) ELSE j

ElemEnd(e, t, i) ==
    CASE e.k = "lit"  -> IF HasLit(t, i, e.s) THEN i + Len(e.s) ELSE 0
      [] e.k = "ws0"  -> ClassEnd(t, i, Spaces)
      [] e.k = "ws1"  -> LET j == ClassEnd(t, i, Spaces) IN IF j > i THEN j ELSE 0
      [] e.k = "int"  -> IntEnd(t, i)
      [] e.k = "sint" -> IntEnd(t, SignSkip(t, i))
      [] e.k = "dec"  -> DecEnd(t, i)
      [] e.k = "sdec" -> DecEnd(t, SignSkip(t, i))
      [] e.k = "num"  -> NumEnd(t, SignSkip(t, i))

Capturing == {"int", "sint", "dec", "sdec", "num"}

Lit(s) == [k |-> "lit", s |-> s]
Ws0 == [k |-> "ws0"]
Ws1 == [k |-> "ws1"]
El(k) == [k |-> k]

\* The pattern pat from its n-th element on, matched at position i of t:
\* [ok, end, groups], groups the captured substrings in order.
RECURSIVE MatchFrom(_, _, _, _, _)
MatchFrom(pat, n, t, i, groups) ==
    IF n > Len(pat) THEN [ok |-> TRUE, end |-> i, groups |-> groups]
    ELSE LET j == ElemEnd(pat[n], t, i) IN
         IF j = 0 THEN [ok |-> FALSE, end |-> i, groups |-> <<>>]
         ELSE MatchFrom(pat, n + 1, t, j,
                        IF pat[n].k \in Capturing
                        THEN Append(groups, SubSeq(t, i, j - 1)) ELSE groups)

MatchAt(pat, t, i) == MatchFrom(pat, 1, t, i, <<>>)

\* ^ under re.MULTILINE: the start of the text or just after a newline.
AtLineStart(t, i) == i = 1 \/ t[i - 1] = "\n"

\* The positions >= i of t where pat matches (with anchor, only at a line
\* start).
MatchPositions(pat, t, i, anchor) ==
    {j \in i..(Len(t) + 1) :
        (~anchor \/ AtLineStart(t, j)) /\ MatchAt(pat, t, j).ok}

Least(S) == CHOOSE x \in S : \A y \in S : x <= y

\* re.search(pat, t): the groups of the leftmost match, or None.
re_search(pat, t) ==
    LET hits == MatchPositions(pat, t, 1, FALSE) IN
    IF hits = {} THEN None ELSE Some(MatchAt(pat, t, Least(hits)).groups)

\* re.findall(pat, t, re.MULTILINE) for a pattern that starts with ^: the
\* groups of the non-overlapping matches, left to right.  No match is empty,
\* so the scan resumes at the end of a match.
RECURSIVE FindAllFrom(_, _, _)
FindAllFrom(pat, t, i) ==
    LET hits == MatchPositions(pat, t, i, TRUE) IN
    IF hits = {} THEN <<>>
    ELSE LET m == MatchAt(pat, t, Least(hits)) IN
         <<m.groups>> \o FindAllFrom(pat, t, m.end)

re_findall_multiline(pat, t) == FindAllFrom(pat, t, 1)

\* ------------------------------------------------------- number parsing
\* The value of a string of decimal digits.
RECURSIVE ParseNat(_)
ParseNat(s) ==
    IF s = <<>> THEN 0
    ELSE 10 * ParseNat(SubSeq(s, 1, Len(s) - 1)) + DigitVal(s[Len(s)])

\* int(s) for s matching -?\d+.
ParseInt(s) ==
    IF s[1] = "-" THEN 0 - ParseNat(Tail(s)) ELSE ParseNat(s)

RECURSIVE StripZeros(_)
StripZeros(s) ==
    IF s # <<>> /\ s[Len(s)] = "0" THEN StripZeros(SubSeq(s, 1, Len(s) - 1)) ELSE s

\* float(s) for s matching -?\d+(\.\d+)?: the number m / 10^e with e minimal,
\* so that "0", "0.0" and "-0.0" are one value and "1.20" equals "1.2".
ParseFloat(s) ==
    LET neg  == s[1] = "-"
        u    == IF neg THEN Tail(s) ELSE s
        dot  == ClassEnd(u, 1, Digits)
        ip   == SubSeq(u, 1, dot - 1)
        fp   == StripZeros(SubSeq(u, dot + 1, Len(u)))
        mag  == ParseNat(ip \o fp)
    IN [m |-> IF neg THEN 0 - mag ELSE mag, e |-> Len(fp)]

\* ------------------------------------------------------------ the patterns
FailedMarker == <<"F", "a", "i", "l", "e", "d", ":", " ">>
LitGridCenter == <<"G", "r", "i", "d", " ", "c", "e", "n", "t", "e", "r", ":">>
LitGridSize == <<"G", "r", "i", "d", " ", "s", "i", "z", "e">>
LitGridSpace == <<"G", "r", "i", "d", " ", "s", "p", "a", "c", "e">>
LitExhaustiveness == <<"E", "x", "h", "a", "u", "s", "t", "i", "v", "e", "n", "e", "s", "s", ":">>
LitRandomSeed == <<"r", "a", "n", "d", "o", "m", " ", "s", "e", "e", "d", ":">>

\* ^\s*(\d+)\s+(-?\d+(?:\.\d+)?)\s+(-?\d+(?:\.\d+)?)\s+(-?\d+(?:\.\d+)?)
pose_pattern ==
    <<Ws0, El("int"), Ws1, El("num"), Ws1, El("num"), Ws1, El("num")>>

\* Grid center:\s+X\s+(-?\d+\.\d+)\s+Y\s+(-?\d+\.\d+)\s+Z\s+(-?\d+\.\d+)
grid_center_pattern ==
    <<Lit(LitGridCenter), Ws1, Lit(<<"X">>), Ws1, El("sdec"),
      Ws1, Lit(<<"Y">>), Ws1, El("sdec"), Ws1, Lit(<<"Z">>), Ws1, El("sdec")>>

\* Grid size\s+:\s+X\s+(\d+)\s+Y\s+(\d+)\s+Z\s+(\d+)
grid_size_pattern ==
    <<Lit(LitGridSize), Ws1, Lit(<<":">>), Ws1, Lit(<<"X">>), Ws1, El("int"),
      Ws1, Lit(<<"Y">>), Ws1, El("int"), Ws1, Lit(<<"Z">>), Ws1, El("int")>>

\* Grid space\s+:\s+(\d+\.\d+)
grid_space_pattern == <<Lit(LitGridSpace), Ws1, Lit(<<":">>), Ws1, El("dec")>>

\* Exhaustiveness:\s+(\d+)
exhaustiveness_pattern == <<Lit(LitExhaustiveness), Ws1, El("int")>>

\* random seed:\s+(-?\d+)
seed_pattern == <<Lit(LitRandomSeed), Ws1, El("sint")>>

\* ------------------------------------------------- process_vina_results
pose_matches(vina_output) == re_findall_multiline(pose_pattern, vina_output)

\* m.groups() if m else (None, None, None)
GroupsOr3(m) ==
    IF m # None THEN <<Some(m[1][1]), Some(m[1][2]), Some(m[1][3])>>
    ELSE <<None, None, None>>

\* m.group(1) if m else None
Group1Or(m) == IF m # None THEN Some(m[1][1]) ELSE None

\* grid_center with the Z group lost.
grid_center_DropZ(vina_output) ==
    LET g == GroupsOr3(re_search(grid_center_pattern, vina_output)) IN
    <<g[1], g[2], None>>

grid_center(vina_output) == GroupsOr3(re_search(grid_center_pattern, vina_output))
grid_size(vina_output) == GroupsOr3(re_search(grid_size_pattern, vina_output))
grid_space(vina_output) == Group1Or(re_search(grid_space_pattern, vina_output))
exhaustiveness_used(vina_output) ==
    Group1Or(re_search(exhaustiveness_pattern, vina_output))
seed_used(vina_output) == Group1Or(re_search(seed_pattern, vina_output))

\* float(g) if g else None; a matched group is a non-empty string, so it is
\* truthy whatever number it spells.
FloatOrNone(g) == IF g # None /\ g[1] # <<>> THEN Some(ParseFloat(g[1])) ELSE None
IntOrNone(g) == IF g # None /\ g[1] # <<>> THEN Some(ParseInt(g[1])) ELSE None

\* The dictionary appended for one pose match of one raw row.
PoseRecord(row, match) ==
    LET out == row.Vina_Output
        gc  == grid_center(out)
        gs  == grid_size(out)
    IN [Receptor |-> row.Receptor,
        Ligand |-> row.Ligand,
        Pose |-> ParseInt(match[1]),
        mode_kcal_mol |-> ParseFloat(match[2]),
        affinity_rmsd_lb |-> ParseFloat(match[3]),
        dist_from_best_mode_rmsd_ub |-> ParseFloat(match[4]),
        Grid_X |-> FloatOrNone(gc[1]),
        Grid_Y |-> FloatOrNone(gc[2]),
        Grid_Z |-> FloatOrNone(gc[3]),
        Size_X |-> IntOrNone(gs[1]),
        Size_Y |-> IntOrNone(gs[2]),
        Size_Z |-> IntOrNone(gs[3]),
        Grid_Space |-> FloatOrNone(grid_space(out)),
        Exhaustiveness |-> IntOrNone(exhaustiveness_used(out)),
        Seed |-> IntOrNone(seed_used(out))]

\* A row that contributes its first pose match only.
RowRecords_FirstOnly(row) ==
    LET ms == pose_matches(row.Vina_Output) IN
    [n \in 1..(IF Len(ms) > 0 THEN 1 ELSE 0) |-> PoseRecord(row, ms[n])]

\* The records one raw row contributes: one per pose match, in match order.
RowRecords(row) ==
    LET ms == pose_matches(row.Vina_Output) IN
    [n \in 1..Len(ms) |-> PoseRecord(row, ms[n])]

\* docking_results after the loop over df.iterrows(), from row i on.
RECURSIVE RecordsFrom(_, _)
RecordsFrom(df, i) ==
    IF i > Len(df) THEN <<>> ELSE RowRecords(df[i]) \o RecordsFrom(df, i + 1)

process_vina_results(df) == RecordsFrom(df, 1)

\* ------------------------------------------------------------ sample texts
LinePose1 == <<"1", " ", "-", "5", ".", "1", " ", "0", " ", "0">>
LinePose2 == <<"2", " ", "-", "4", ".", "8", " ", "1", ".", "2", " ", "2", ".", "3">>
LineCenter == <<"G", "r", "i", "d", " ", "c", "e", "n", "t", "e", "r", ":", " ", "X", " ", "1", ".", "5", " ", "Y", " ", "2", ".", "0", " ", "Z", " ", "-", "3", ".", "5">>
LineSize == <<"G", "r", "i", "d", " ", "s", "i", "z", "e", " ", ":", " ", "X", " ", "6", " ", "Y", " ", "6", " ", "Z", " ", "6">>
LineSpace == <<"G", "r", "i", "d", " ", "s", "p", "a", "c", "e", " ", ":", " ", "0", ".", "3", "7", "5">>
LineExh == <<"E", "x", "h", "a", "u", "s", "t", "i", "v", "e", "n", "e", "s", "s", ":", " ", "8">>
LineSeed == <<"r", "a", "n", "d", "o", "m", " ", "s", "e", "e", "d", ":", " ", "4", "2">>
LineNoise == <<"E", "r", "r", "o", "r", ":", " ", "x">>

\* The lines of ls joined by newlines.
RECURSIVE Text(_)
Text(ls) ==
    IF ls = <<>> THEN <<>>
    ELSE IF Len(ls) = 1 THEN ls[1]
    ELSE ls[1] \o <<"\n">> \o Text(Tail(ls))

Lines == {LinePose1, LinePose2, LineCenter, LineSeed, LineNoise}
LineTexts == {Text(ls) : ls \in UNION {[1..n -> Lines] : n \in 0..MaxLines}}

\* A complete report: every metadata block, then two poses.
FullOutput ==
    Text(<<LineCenter, LineSize, LineSpace, LineExh, LineSeed, LinePose1, LinePose2>>)
TwoPoseOutput == Text(<<LinePose1, LinePose2>>)

\* str(e) of a CalledProcessError, without the command it quotes.
StrCalledProcessError == <<"C", "o", "m", "m", "a", "n", "d", " ", "r", "e", "t", "u", "r", "n", "e", "d", " ", "n", "o", "n", "-", "z", "e", "r", "o", " ", "e", "x", "i", "t", " ", "s", "t", "a", "t", "u", "s", " ", "1", ".">>

\* f"Failed: {e.stderr or str(e)}"
FailedStatus(stderr) ==
    FailedMarker \o (IF stderr # <<>> THEN stderr ELSE StrCalledProcessError)

\* ------------------------------------------------------------------- inputs
output_folder == "vina_results"
vina_exe_path == "vina.exe"

Receptors == {"r", "x_r"}
Ligands == {"l", "l_x"}
Pairs == [receptor : Receptors, ligand : Ligands]
Tables == UNION {[1..n -> Pairs] : n \in 0..MaxPairs}

\* seed_num as a caller of run_docking can pass it.
SeedNums == {None, Some(1234)}

\* What the tool prints in a batch: standard output on exit status 0, standard
\* error otherwise (empty, or two lines the second of which reads like a pose).
StdoutTexts == {TwoPoseOutput}
StderrTexts == {<<>>, Text(<<LineNoise, LinePose1>>)}

\* The state of the file system the batch runs in.
\*   no_root          the output folder cannot be created
\*   no_csv           the input table cannot be read
\*   read_only        the output folder exists and nothing can be created in it
\*   docking_blocked  the output folder is writable, <folder>/docking is a file
FsStates == {"ok", "no_root", "no_csv", "read_only", "docking_blocked"}

\* ----------------------------------------------------------- process_docking
\* os.path.join(a, b) for a relative b.
path_join(a, b) == a \o "/" \o b

command_txt_path(receptor, ligand) ==
    path_join(output_folder, "command_" \o ligand \o "_" \o receptor \o ".txt")

dock_dir == path_join(output_folder, "docking")

vina_output_path(receptor, ligand) ==
    path_join(dock_dir, "dock_" \o ligand \o "_" \o receptor \o ".pdbqt")

\* str(seed_num) inside the f-string.
SeedStr(seed) == IF seed = None THEN "None" ELSE ToString(seed[1])

\* The words of vina_command as the shell splits them.
vina_command(receptor, ligand, seed) ==
    <<vina_exe_path, "--config", command_txt_path(receptor, ligand),
      "--out", vina_output_path(receptor, ligand), "--seed", SeedStr(seed)>>

\* The dictionary process_docking returns.
ResultDict(receptor, ligand, result_status) ==
    [Receptor |-> receptor,
     Ligand |-> ligand,
     Config_File |-> command_txt_path(receptor, ligand),
     Output_File |-> vina_output_path(receptor, ligand),
     Vina_Output |-> result_status]

\* ---------------------------------------------------------------- the state
VARIABLES
    entry,            \* "run_docking" or "interactive": what was started
    fs,               \* the file system state, fixed for the run
    seed_num,         \* the seed_num argument of run_docking
    data,             \* the rows of the input table
    pc,               \* position of the main process
    error,            \* the exception that ended the main process, or "none"
    task,             \* task[i]: position of the worker running row i
    files,            \* <<path, writer>>: files written, writer 0 the main process
    invoked,          \* [task, argv]: the tool invocations made
    outcome,          \* outcome[i]: None or Some(what process_docking returned)
    completed,        \* the rows in the order their tasks returned
    docking_results,  \* what pool.map returned
    results_df_raw,   \* the raw dataset
    results_df_proc   \* the final dataset

vars == <<entry, fs, seed_num, data, pc, error, task, files, invoked, outcome,
          completed, docking_results, results_df_raw, results_df_proc>>

Rows == 1..Len(data)

Init ==
    /\ entry \in {"run_docking", "interactive"}
    /\ fs \in FsStates
    /\ seed_num \in (IF entry = "run_docking" THEN SeedNums ELSE {None})
    /\ data \in Tables
    /\ pc = entry
    /\ error = "none"
    /\ task = [i \in Rows |-> "idle"]
    /\ files = {}
    /\ invoked = {}
    /\ outcome = [i \in Rows |-> None]
    /\ completed = <<>>
    /\ docking_results = <<>>
    /\ results_df_raw = <<>>
    /\ results_df_proc = <<>>

Raise(e) == pc' = "raised" /\ error' = e

\* --------------------------------------------- interactive_docking_pipeline
\* The checks of the input table and the tool binary, and the creation of the
\* output directory.
InteractiveValidate ==
    /\ pc = "interactive"
    /\ \/ fs = "no_csv" /\ Raise("ValueError")
       \/ fs # "no_csv" /\ Raise("ValueError")          \* no binary at the path
       \/ fs = "no_root" /\ Raise("OSError")
       \/ fs \notin {"no_csv", "no_root"} /\ pc' = "download" /\ error' = error
    /\ UNCHANGED <<entry, fs, seed_num, data, task, files, invoked, outcome,
                   completed, docking_results, results_df_raw, results_df_proc>>

\* download_pdbqt_files: creates <out>/ligands and <out>/receptors, then
\* downloads and converts, reporting failures of single files on the console.
InteractiveDownload ==
    /\ pc = "download"
    /\ \/ fs = "read_only" /\ Raise("OSError")
       \/ fs # "read_only" /\ pc' = "call_run_docking" /\ error' = error
    /\ UNCHANGED <<entry, fs, seed_num, data, task, files, invoked, outcome,
                   completed, docking_results, results_df_raw, results_df_proc>>

\* run_docking(...) called without its required seed_num argument.
InteractiveRunDocking ==
    /\ pc = "call_run_docking"
    /\ Raise("TypeError")
    /\ UNCHANGED <<entry, fs, seed_num, data, task, files, invoked, outcome,
                   completed, docking_results, results_df_raw, results_df_proc>>

\* -------------------------------------------------------------- run_docking
\* os.makedirs(output_folder, exist_ok=True)
MakeOutputFolder ==
    /\ pc = "run_docking"
    /\ \/ fs = "no_root" /\ Raise("OSError")
       \/ fs # "no_root" /\ pc' = "read_csv" /\ error' = error
    /\ UNCHANGED <<entry, fs, seed_num, data, task, files, invoked, outcome,
                   completed, docking_results, results_df_raw, results_df_proc>>

\* pd.read_csv(input_csv) and the list of argument tuples, one per row.
ReadCsv ==
    /\ pc = "read_csv"
    /\ \/ fs = "no_csv" /\ Raise("OSError")
       \/ fs # "no_csv" /\ pc' = "rows" /\ error' = error
    /\ UNCHANGED <<entry, fs, seed_num, data, task, files, invoked, outcome,
                   completed, docking_results, results_df_raw, results_df_proc>>

\* pool.map(process_docking, rows) hands every row to the pool.
PoolMapSubmit ==
    /\ pc = "rows"
    /\ pc' = "pool"
    /\ task' = [i \in Rows |-> "submitted"]
    /\ UNCHANGED <<entry, fs, seed_num, data, error, files, invoked, outcome,
                   completed, docking_results, results_df_raw, results_df_proc>>

\* process_docking, row i: the configuration file is opened for writing and
\* written.  An exception of open() leaves process_docking.
WriteConfig(i) ==
    /\ pc = "pool" /\ task[i] = "submitted"
    /\ \/ /\ fs = "read_only"
          /\ task' = [task EXCEPT ![i] = "raised"]
          /\ files' = files
       \/ /\ fs # "read_only"
          /\ task' = [task EXCEPT ![i] = "config"]
          /\ files' = files \cup
                {<<command_txt_path(data[i].receptor, data[i].ligand), i>>}
    /\ UNCHANGED <<entry, fs, seed_num, data, pc, error, invoked, outcome,
                   completed, docking_results, results_df_raw, results_df_proc>>

\* process_docking, row i: os.makedirs(dock_dir, exist_ok=True).
MakeDockDir(i) ==
    /\ pc = "pool" /\ task[i] = "config"
    /\ \/ fs = "docking_blocked" /\ task' = [task EXCEPT ![i] = "raised"]
       \/ fs # "docking_blocked" /\ task' = [task EXCEPT ![i] = "dockdir"]
    /\ UNCHANGED <<entry, fs, seed_num, data, pc, error, files, invoked, outcome,
                   completed, docking_results, results_df_raw, results_df_proc>>

\* The task of row i returns the dictionary d.
Return(i, d) ==
    /\ task' = [task EXCEPT ![i] = "returned"]
    /\ outcome' = [outcome EXCEPT ![i] = Some(d)]
    /\ completed' = Append(completed, i)

\* process_docking, row i: subprocess.run(vina_command, shell=True, check=True,
\* capture_output=True, text=True) and the return.  Exit status 0 gives the
\* standard output; CalledProcessError (a non-zero status, which is also what
\* the shell reports for a missing binary) gives the failure text; any other
\* exception (the shell could not be started) leaves process_docking.
RunVina(i) ==
    LET receptor == data[i].receptor
        ligand   == data[i].ligand
    IN
    /\ pc = "pool" /\ task[i] = "dockdir"
    /\ invoked' = invoked \cup
          {[task |-> i, argv |-> vina_command(receptor, ligand, seed_num)]}
    /\ \/ \E stdout \in StdoutTexts :
             /\ Return(i, ResultDict(receptor, ligand, stdout))
             /\ files' = files \cup {<<vina_output_path(receptor, ligand), i>>}
       \/ \E stderr \in StderrTexts :
             /\ Return(i, ResultDict(receptor, ligand, FailedStatus(stderr)))
             /\ files' = files
       \/ /\ task' = [task EXCEPT ![i] = "raised"]
          /\ UNCHANGED <<outcome, completed, files>>
    /\ UNCHANGED <<entry, fs, seed_num, data, pc, error,
                   docking_results, results_df_raw, results_df_proc>>

\* pool.map handing the results back in the order the tasks returned.
PoolMapResults_CompletionOrder(oc, order) ==
    [i \in 1..Len(order) |-> oc[order[i]][1]]

\* The list pool.map returns: the results in the order of the rows submitted,
\* whatever the order in which the tasks returned.
PoolMapResults(oc, order) == [i \in 1..Len(order) |-> oc[i][1]]

\* pool.map returns once every task has ended; it re-raises the exception of a
\* task that raised, and the with block ends the pool.
PoolMapReturn ==
    /\ pc = "pool"
    /\ \A i \in Rows : task[i] \in {"returned", "raised"}
    /\ \/ /\ \E i \in Rows : task[i] = "raised"
          /\ Raise("TaskError")
          /\ docking_results' = docking_results
       \/ /\ \A i \in Rows : task[i] = "returned"
          /\ docking_results' = PoolMapResults(outcome, completed)
          /\ pc' = "aggregate" /\ error' = error
    /\ UNCHANGED <<entry, fs, seed_num, data, task, files, invoked, outcome,
                   completed, results_df_raw, results_df_proc>>

\* A raw dataset that keeps only the tasks that did not fail.
RawDataFrame_DropFailed(results) ==
    SelectSeq(results, LAMBDA d : ~HasLit(d.Vina_Output, 1, FailedMarker))

\* pd.DataFrame(docking_results): one row per result, in list order.
RawDataFrame(results) == results

output_csv_raw == path_join(output_folder, "docking_results_raw.csv")
output_csv_proc == path_join(output_folder, "docking_results_final.csv")

\* The raw dataset is built and saved, the final dataset extracted and saved.
SaveResults ==
    /\ pc = "aggregate"
    /\ results_df_raw' = RawDataFrame(docking_results)
    /\ results_df_proc' = process_vina_results(results_df_raw')
    /\ files' = files \cup {<<output_csv_raw, 0>>, <<output_csv_proc, 0>>}
    /\ pc' = "done"
    /\ UNCHANGED <<entry, fs, seed_num, data, error, task, invoked, outcome,
                   completed, docking_results>>

Next ==
    \/ InteractiveValidate
    \/ InteractiveDownload
    \/ InteractiveRunDocking
    \/ MakeOutputFolder
    \/ ReadCsv
    \/ PoolMapSubmit
    \/ \E i \in Rows : WriteConfig(i)
    \/ \E i \in Rows : MakeDockDir(i)
    \/ \E i \in Rows : RunVina(i)
    \/ PoolMapReturn
    \/ SaveResults

Spec == Init /\ [][Next]_vars

\* ------------------------------------------ process_vina_results, called alone
\* The raw datasets handed to process_vina_results: one row with any text of
\* up to MaxLines lines, as printed or behind the failure marker, or with the
\* complete report; or up to MaxRows rows of batch texts.
ExtractTexts ==
    LineTexts \cup {FailedStatus(t) : t \in LineTexts} \cup {FullOutput}

FrameTexts == StdoutTexts \cup {FailedStatus(t) : t \in StderrTexts}

RawRows(texts) ==
    {ResultDict(p.receptor, p.ligand, t) : p \in Pairs, t \in texts}

RawFrames ==
    {<<ResultDict("r", "l", t)>> : t \in ExtractTexts}
      \cup UNION {[1..n -> RawRows(FrameTexts)] : n \in 0..MaxRows}

InitExtract ==
    /\ entry = "process_vina_results"
    /\ fs = "ok"
    /\ seed_num = None
    /\ data = <<>>
    /\ pc = "extract"
    /\ error = "none"
    /\ task = <<>>
    /\ files = {}
    /\ invoked = {}
    /\ outcome = <<>>
    /\ completed = <<>>
    /\ docking_results = <<>>
    /\ results_df_raw \in RawFrames
    /\ results_df_proc = <<>>

Extract ==
    /\ pc = "extract"
    /\ results_df_proc' = process_vina_results(results_df_raw)
    /\ pc' = "extracted"
    /\ UNCHANGED <<entry, fs, seed_num, data, error, task, files, invoked,
                   outcome, completed, docking_results, results_df_raw>>

NextExtract == Extract

SpecExtract == InitExtract /\ [][NextExtract]_vars

\* ================================================================== claims
IsFailedText(t) == HasLit(t, 1, FailedMarker)
RawRowsOf == 1..Len(results_df_raw)
ProcRowsOf == 1..Len(results_df_proc)
Range(f) == {f[x] : x \in DOMAIN f}

\* C1: once run_docking has finished, the raw dataset has exactly as many rows
\* as the input table, and every pair occurs in it as often as in the input,
\* however many of the tasks failed.
C1_RawRowPerPair ==
    pc = "done" =>
        /\ Len(results_df_raw) = Len(data)
        /\ \A p \in Pairs :
              Cardinality({i \in RawRowsOf :
                              /\ results_df_raw[i].Receptor = p.receptor
                              /\ results_df_raw[i].Ligand = p.ligand})
                = Cardinality({i \in Rows : data[i] = p})

\* C1 witness: a finished batch of at least two pairs in which one task failed
\* and another succeeded.
C1_Witness ==
    /\ pc = "done" /\ Len(data) >= 2
    /\ \E i, j \in RawRowsOf :
          /\ IsFailedText(results_df_raw[i].Vina_Output)
          /\ ~IsFailedText(results_df_raw[j].Vina_Output)

\* C2: two distinct input pairs never resolve to the same configuration path
\* or to the same output path.
C2_PathUniqueness ==
    \A i, j \in Rows :
        (outcome[i] # None /\ outcome[j] # None /\ data[i] # data[j]) =>
            /\ outcome[i][1].Config_File # outcome[j][1].Config_File
            /\ outcome[i][1].Output_File # outcome[j][1].Output_File

\* C3: the failure of a task is never raised to the batch level, and once the
\* pool has ended every task of the batch has its outcome.
C3_FailureIsolation ==
    /\ error # "TaskError"
    /\ (pc \in {"raised", "aggregate", "done"} /\ \E i \in Rows : task[i] # "idle")
          => \A i \in Rows : outcome[i] # None

\* C4: a raw dataset whose texts all begin with the failure marker yields no
\* pose record.
C4_FailedTextNoPoses ==
    (pc = "extracted" /\ \A i \in RawRowsOf : IsFailedText(results_df_raw[i].Vina_Output))
        => results_df_proc = <<>>

\* C5: aggregation starts only when every task has returned its outcome, and
\* row i of pool.map's list and of the raw dataset carries the receptor and
\* the ligand of input row i, in whatever order the tasks completed.
C5_SubmissionOrderAfterBarrier ==
    /\ pc \in {"aggregate", "done"} =>
          /\ \A i \in Rows : task[i] = "returned" /\ outcome[i] # None
          /\ Len(docking_results) = Len(data)
          /\ \A i \in Rows :
                /\ docking_results[i].Receptor = data[i].receptor
                /\ docking_results[i].Ligand = data[i].ligand
    /\ pc = "done" =>
          /\ Len(results_df_raw) = Len(data)
          /\ \A i \in Rows :
                /\ results_df_raw[i].Receptor = data[i].receptor
                /\ results_df_raw[i].Ligand = data[i].ligand
    /\ pc # "done" => results_df_raw = <<>>

\* C5 witness: a finished batch whose second row completed before its first
\* row, the two rows being different pairs.
C5_Witness ==
    /\ pc = "done" /\ Len(completed) >= 2
    /\ completed[1] > completed[2]
    /\ data[completed[1]] # data[completed[2]]

\* C6: no file is written by two tasks of a batch.
C6_NoSharedFile ==
    \A w1, w2 \in files : w1[1] = w2[1] => w1[2] = w2[2]

\* C7 as claimed: in every pose record the nine metadata fields are all
\* populated or all null.
C7_AllOrNothingPerTask ==
    \A n \in ProcRowsOf :
        LET r == results_df_proc[n] IN
        Cardinality({r.Grid_X # None, r.Grid_Y # None, r.Grid_Z # None,
                     r.Size_X # None, r.Size_Y # None, r.Size_Z # None,
                     r.Grid_Space # None, r.Exhaustiveness # None,
                     r.Seed # None}) = 1

\* C7 as amended: in every pose record the three grid-center fields are all
\* populated or all null, and so are the three grid-size fields; the blocks
\* (center, size, spacing, exhaustiveness, seed) are populated independently.
C7_AllOrNothingPerBlock ==
    \A n \in ProcRowsOf :
        LET r == results_df_proc[n] IN
        /\ Cardinality({r.Grid_X # None, r.Grid_Y # None, r.Grid_Z # None}) = 1
        /\ Cardinality({r.Size_X # None, r.Size_Y # None, r.Size_Z # None}) = 1

\* C7 witness: an extracted pose record with the grid center populated and
\* the seed null.
C7_Witness ==
    /\ pc = "extracted"
    /\ \E n \in ProcRowsOf :
          /\ results_df_proc[n].Grid_X # None
          /\ results_df_proc[n].Grid_Z # None
          /\ results_df_proc[n].Seed = None

\* C8: when run_docking is ended by an exception in a batch started where the
\* output tree cannot be created or written, or the input table cannot be
\* read, no task has been dispatched: none has left its idle position,
\* written a file or invoked the tool.
C8_AbortBeforeDispatch ==
    (entry = "run_docking" /\ fs # "ok" /\ pc = "raised") =>
        /\ \A i \in Rows : task[i] = "idle"
        /\ files = {}
        /\ invoked = {}

\* C9: the tool is invoked with --seed exactly when a seed is set, and the
\* batch the interactive pipeline starts is not ended by the call itself.
C9_SeedOnlyIfSet ==
    /\ \A c \in invoked : ("--seed" \in Range(c.argv)) <=> (seed_num # None)
    /\ entry = "interactive" => error # "TypeError"

\* The number of pose lines of raw rows 1..i-1.
RECURSIVE PosesBefore(_)
PosesBefore(i) ==
    IF i <= 1 THEN 0
    ELSE PosesBefore(i - 1) + Len(pose_matches(results_df_raw[i - 1].Vina_Output))

\* C10 as claimed: the final dataset has one row per pose line, raw row after
\* raw row, and within one raw row the pose ordinals are positive and
\* strictly increasing.
C10_FlattenedInPoseOrder ==
    pc = "extracted" =>
        /\ Len(results_df_proc) = PosesBefore(Len(results_df_raw) + 1)
        /\ \A i \in RawRowsOf :
              \A n \in 1..Len(pose_matches(results_df_raw[i].Vina_Output)) :
                 LET r == results_df_proc[PosesBefore(i) + n] IN
                 /\ r.Receptor = results_df_raw[i].Receptor
                 /\ r.Ligand = results_df_raw[i].Ligand
                 /\ r.Pose >= 1
                 /\ n > 1 => r.Pose > results_df_proc[PosesBefore(i) + n - 1].Pose

\* C10 as amended: the final dataset has one row per pose line, raw row after
\* raw row, and within one raw row in the order of the pose lines in the text;
\* the Pose of a row is the integer its pose line starts with.
C10_FlattenedInTextOrder ==
    pc = "extracted" =>
        /\ Len(results_df_proc) = PosesBefore(Len(results_df_raw) + 1)
        /\ \A i \in RawRowsOf :
              LET ms == pose_matches(results_df_raw[i].Vina_Output) IN
              \A n \in 1..Len(ms) :
                 LET r == results_df_proc[PosesBefore(i) + n] IN
                 /\ r.Receptor = results_df_raw[i].Receptor
                 /\ r.Ligand = results_df_raw[i].Ligand
                 /\ r.Pose = ParseInt(ms[n][1])

\* C10 witness: an extraction over at least two raw rows of different pairs
\* that produced at least three pose records, the first row giving two.
C10_Witness ==
    /\ pc = "extracted"
    /\ Len(results_df_raw) >= 2
    /\ Len(results_df_proc) >= 3
    /\ PosesBefore(2) = 2
    /\ results_df_raw[1].Receptor # results_df_raw[2].Receptor

====
